---- MODULE Spec2Model ----
(***************************************************************************)
(* Model of the instant-replay recorder in src/src/main.rs: the recording  *)
(* thread (recording_loop and save_final_clip), the UI thread's quit       *)
(* handler, and the parts of the environment the recording thread reads    *)
(* and writes (clock, keyboard, control channel, the segment encoder       *)
(* process, the files on disk).                                            *)
(*                                                                         *)
(* Time is counted in milliseconds: one second, 1_000_000_000 ns in the    *)
(* source, is 1000 units here (TLC's integers are 32 bits wide).           *)
(* The model follows the recording thread until it leaves recording_loop.  *)
(***************************************************************************)
EXTENDS Integers, Sequences, FiniteSets, TLC

\* ---------------------------------------------------------------- bounds
\* Horizon of the clock, in frame intervals: no pacer tick is modelled with
\* a deadline past it.
MaxIntervals == 3
\* Counters that only the claims read saturate at this value.
MaxCount == 2

\* ------------------------------------------------------ program constants
\* main.rs:159  Duration::from_nanos((1_000_000_000 / fps) as u64): one
\* second, in the model's milliseconds.
SECOND == 1000
\* main.rs:189-190  "-segment_wrap", "2"
\* Mutant of SEGMENT_WRAP: the encoder rotates over three files.
SegmentWrapThree == 2 + 1

SEGMENT_WRAP == 2

\* Session parameters the runs are started with (config::FPS, config::TIME).
FpsChoices == {1, 2}
TimeChoices == {1}

Slots == 0 .. (SEGMENT_WRAP - 1)
\* Seconds the clock can show within the horizon (fps >= 1).
ClipNames == 0 .. MaxIntervals

VARIABLES
    fps,              \* recording_loop: let fps
    time_seg,         \* recording_loop: let time_seg
    pc,               \* position of the recording thread
    exitReason,       \* why recording_loop was left
    next_frame_time,  \* recording_loop: let mut next_frame_time
    last_ckey_state,  \* recording_loop: let mut last_ckey_state
    captured,         \* the Ok/Err of manager.capture_frame() of this tick
    capture_pressed,  \* keys.contains(&key_code) of this tick's get_keys()
    list,             \* save_final_clip: let mut list
    child,            \* the Segment Encoder Process: none, running, exited, reaped
    stdinOpen,        \* whether the pipe to the encoder is still held open
    enc,              \* the encoder's output position: [cur, frames]
    slots,            \* buffer0.mp4, buffer1.mp4: [exists, mtime]
    manifest,         \* concat_list.txt: [exists, content]
    clips,            \* clip_<second>.mp4: absent, written, rewritten
    now,              \* the clock (Instant::now / now_utc), milliseconds
    keyDown,          \* physical state of the save hotkey
    chan,             \* messages pending on the control channel
    quitSent,         \* the UI thread has run tx.send(true)
    tickDeadline,     \* the deadline the current tick waited for
    endCause,         \* why the segment being drained/finalized ended
    lastFin,          \* how the last call of save_final_clip ended
    holdEdges,        \* save requests raised during the current key hold
    cfgFile,          \* the content of ack.cfg
    config,           \* the statics of mod config: KEY, FPS, KBPS, TIME, ENCODER
    mainPc,           \* position of main
    cfgReset,         \* main has taken the "Resetting config." branch
    kbps,             \* recording_loop: let kbps
    key_code,         \* recording_loop: let key_code
    enc_idx,          \* recording_loop: let enc_idx
    segStart,         \* the Instant::now() of main.rs:203 of this segment
    ticks,            \* passes of main.rs:207-215 in this segment
    freshSlots,       \* slot files the running encoder has written
    spawnArgs         \* the argument list of the first spawn

vars == << fps, time_seg, pc, exitReason, next_frame_time, last_ckey_state,
           captured, capture_pressed, list, child, stdinOpen, enc, slots,
           manifest, clips, now, keyDown, chan, quitSent, tickDeadline,
           endCause, lastFin, holdEdges, cfgFile, config, mainPc, cfgReset,
           kbps, key_code, enc_idx, segStart, ticks, freshSlots,
           spawnArgs >>

segVars == << segStart, ticks, freshSlots, spawnArgs >>

cfgVars == << cfgFile, config, mainPc, cfgReset, kbps, key_code, enc_idx >>

\* ---------------------------------------------------------------- helpers
Max(a, b) == IF a >= b THEN a ELSE b

Bump(n) == IF n < MaxCount THEN n + 1 ELSE n

\* main.rs:159
frame_duration == SECOND \div fps

MaxTime == MaxIntervals * frame_duration

\* main.rs:283-284: the clip name keeps the timestamp down to the second.
output_name(t) == t \div SECOND

NoSlot == [exists |-> FALSE, mtime |-> 0]
NoManifest == [exists |-> FALSE, content |-> << >>]
NoEnc == [cur |-> -1, frames |-> 0]

\* ffmpeg -f segment -segment_time T -segment_wrap 2 buffer%d.mp4 at
\* -framerate fps: a slot file holds fps * T frames.
FramesPerSlot == fps * time_seg

\* The encoder takes one frame at time t: it opens buffer0.mp4 on the first
\* frame, moves to the next slot (modulo segment_wrap, overwriting) once the
\* current file is full, and appends otherwise.
EncoderAccept(e, s, t) ==
    IF e.cur = -1
    THEN [enc |-> [cur |-> 0, frames |-> 1],
          slots |-> [s EXCEPT ![0] = [exists |-> TRUE, mtime |-> t]]]
    ELSE IF e.frames >= FramesPerSlot
    THEN LET n == (e.cur + 1) % SEGMENT_WRAP
         IN  [enc |-> [cur |-> n, frames |-> 1],
              slots |-> [s EXCEPT ![n] = [exists |-> TRUE, mtime |-> t]]]
    ELSE [enc |-> [e EXCEPT !.frames = e.frames + 1],
          slots |-> [s EXCEPT ![e.cur] = [exists |-> TRUE, mtime |-> t]]]

\* The encoder sees end of input at time t: it finishes the file it has open.
EncoderClose(e, s, t) ==
    IF e.cur = -1 THEN s
    ELSE [s EXCEPT ![e.cur] = [exists |-> TRUE, mtime |-> t]]

\* main.rs:151-157
EncoderName(i) ==
    IF i = 1 THEN "h264_amf"
    ELSE IF i = 2 THEN "h264_nvenc"
    ELSE IF i = 3 THEN "h264_qsv"
    ELSE "libx264"

NoArgs == [framerate |-> 0, codec |-> "none", bitrate |-> 0,
           segment_time |-> 0, segment_wrap |-> 0]

\* main.rs:163-194: the arguments of ./ffmpeg.exe that depend on the
\* configuration; the others are literals.
SpawnArgs ==
    [framerate |-> fps, codec |-> EncoderName(enc_idx),
     bitrate |-> kbps \div 1000, segment_time |-> time_seg,
     segment_wrap |-> SEGMENT_WRAP]

\* ------------------------------------------------------- configuration
\* A value of a field of the JSON object in ack.cfg: missing, a number or a
\* string.  A number x is held as 10 * x, so that fractions are values too.
Missing == [t |-> "missing", v |-> 0]
Num(x) == [t |-> "num", v |-> x]
Str(x) == [t |-> "str", v |-> x]

\* main.rs:34  DEFAULT_CFG
DefaultFile ==
    [kind |-> "object", time |-> Num(100), fps |-> Num(600),
     kbps |-> Num(100000), key |-> Str("F10"), encoder |-> Num(0)]

\* main.rs:7-11: the statics before load_settings has run.
StaticDefaults ==
    [key |-> "F10", fps |-> 60, kbps |-> 10000, time |-> 10, encoder |-> 0]

\* Names Keycode::from_str accepts (main.rs:65), among those tried.
KeyNames == {"F10", "F9"}

\* The contents of ack.cfg a run may start with: no file, text that is not
\* JSON, JSON whose root is no object, and objects with each field missing,
\* of the wrong type, or holding a value.
NoFile == [kind |-> "absent", time |-> Missing, fps |-> Missing,
           kbps |-> Missing, key |-> Missing, encoder |-> Missing]
CfgFiles ==
    [kind : {"garbage", "array"}, time : {Missing}, fps : {Missing},
     kbps : {Missing}, key : {Missing}, encoder : {Missing}]
    \cup {NoFile}
    \cup [kind : {"object"},
          time : {Missing, Num(100), Num(0)},
          fps : {Missing, Str("60"), Num(600), Num(5), Num(0), Num(-10)},
          kbps : {Missing, Num(100000)},
          key : {Missing, Num(10), Str("F10"), Str("F9"), Str("Bogus")},
          encoder : {Missing, Num(0), Num(20), Num(25), Num(70), Num(-10)}]

\* main.rs:66-68  `x as i32` of an f64: the fraction is dropped, towards 0.
AsI32(x) == IF x >= 0 THEN x \div 10 ELSE -((-x) \div 10)

\* main.rs:64  encoder.clamp(0., 3.)
Clamp03(x) == IF x < 0 THEN 0 ELSE IF x > 30 THEN 30 ELSE x

\* main.rs:37-40: the text load_settings parses; DEFAULT_CFG when the file
\* cannot be read.
CfgText(file) == IF file.kind = "absent" THEN DefaultFile ELSE file

\* main.rs:36-71  load_settings: the Result and the statics it leaves.
\* ENCODER is stored (main.rs:64) before Keycode::from_str can fail
\* (main.rs:65).
load_settings(file, st) ==
    LET f == CfgText(file)
    IN  IF f.kind # "object"
        THEN [ok |-> FALSE, st |-> st]
        ELSE IF \/ f.time.t # "num" \/ f.fps.t # "num" \/ f.kbps.t # "num"
                \/ f.encoder.t # "num" \/ f.key.t # "str"
        THEN [ok |-> FALSE, st |-> st]
        ELSE LET st1 == [st EXCEPT !.encoder = AsI32(Clamp03(f.encoder.v))]
             IN  IF f.key.v \notin KeyNames
                 THEN [ok |-> FALSE, st |-> st1]
                 ELSE [ok |-> TRUE,
                       st |-> [key |-> f.key.v,
                               kbps |-> AsI32(f.kbps.v * 1000),
                               fps |-> AsI32(f.fps.v),
                               time |-> AsI32(f.time.v),
                               encoder |-> st1.encoder]]

\* main.rs:38  fs::write("ack.cfg", DEFAULT_CFG) when the file cannot be
\* read, and main.rs:83 after a failed load; its result is ignored.
WriteDefault(file, wrote) == IF wrote THEN DefaultFile ELSE file

\* ------------------------------------------------------------------- Init
\* State when the recording thread starts: main has removed both slot files
\* (main.rs:91-92) and created the channel (main.rs:94).  The working
\* directory holds no manifest and no clip of an earlier run.
Init ==
    /\ fps \in FpsChoices
    /\ time_seg \in TimeChoices
    /\ pc = "spawn"
    /\ exitReason = "none"
    /\ next_frame_time = 0
    /\ last_ckey_state = FALSE
    /\ captured = FALSE
    /\ capture_pressed = FALSE
    /\ list = << >>
    /\ child = "none"
    /\ stdinOpen = FALSE
    /\ enc = NoEnc
    /\ slots = [i \in Slots |-> NoSlot]
    /\ manifest = NoManifest
    /\ clips = [n \in ClipNames |-> "absent"]
    /\ now = 0
    /\ keyDown = FALSE
    /\ chan = 0
    /\ quitSent = FALSE
    /\ tickDeadline = 0
    /\ endCause = "none"
    /\ lastFin = "none"
    /\ holdEdges = 0
    /\ segStart = 0
    /\ ticks = 0
    /\ freshSlots = {}
    /\ spawnArgs = NoArgs
    /\ mainPc = "started"
    /\ cfgReset = FALSE
    /\ config = [key |-> "F10", fps |-> fps, kbps |-> 10000000,
                 time |-> time_seg, encoder |-> 0]
    /\ cfgFile = [kind |-> "object", time |-> Num(10 * time_seg),
                  fps |-> Num(10 * fps), kbps |-> Num(100000),
                  key |-> Str("F10"), encoder |-> Num(0)]
    /\ kbps = config.kbps
    /\ key_code = config.key
    /\ enc_idx = config.encoder

\* ------------------------------------------------- recording_loop: SPAWNING
\* Mutant of SegmentStartDeadline: the deadline of the segment before is kept.
SegmentStartDeadlineKept(prev, t) == prev

\* main.rs:203: let mut next_frame_time = Instant::now(), once per segment.
SegmentStartDeadline(prev, t) == t

\* main.rs:162-204.  A spawn error leaves recording_loop through `?`.
Spawn ==
    /\ pc = "spawn"
    /\ \E ok \in BOOLEAN :
         IF ok
         THEN /\ pc' = "pace"
              /\ child' = "running"
              /\ stdinOpen' = TRUE
              /\ enc' = NoEnc
              /\ next_frame_time' = SegmentStartDeadline(next_frame_time, now)
              /\ last_ckey_state' = FALSE
              /\ segStart' = now
              /\ ticks' = 0
              /\ freshSlots' = {}
              /\ spawnArgs' = IF child = "none" THEN SpawnArgs ELSE spawnArgs
              /\ UNCHANGED exitReason
         ELSE /\ pc' = "done"
              /\ exitReason' = "spawn_failed"
              /\ UNCHANGED << child, stdinOpen, enc, next_frame_time,
                              last_ckey_state >>
              /\ UNCHANGED segVars
    /\ UNCHANGED << fps, time_seg, captured, capture_pressed, list, slots,
                    manifest, clips, now, keyDown, chan, quitSent,
                    tickDeadline, endCause, lastFin, holdEdges >>
    /\ UNCHANGED cfgVars

\* ------------------------------------------------ recording_loop: STREAMING
\* Mutant of PaceWake: the pacer does not wait for the deadline.
PaceWakeNoWait(t, deadline) == t

\* main.rs:207-214: the clock when the pacer lets the tick go: at once when
\* the deadline has passed, at the deadline otherwise.
PaceWake(t, deadline) == Max(t, deadline)

\* Mutant of NextDeadline: the pacer resynchronises to the clock.
NextDeadlineResync(deadline, t) == t + frame_duration

\* main.rs:215: next_frame_time += frame_duration, whatever the clock t says.
NextDeadline(deadline, t) == deadline + frame_duration

\* main.rs:207-215.  Sleep and spin until the deadline, then advance it.
Pace ==
    /\ pc = "pace"
    /\ next_frame_time <= MaxTime
    /\ now' = PaceWake(now, next_frame_time)
    /\ tickDeadline' = next_frame_time
    /\ next_frame_time' = NextDeadline(next_frame_time,
                                        PaceWake(now, next_frame_time))
    /\ ticks' = ticks + 1
    /\ pc' = "capture"
    /\ UNCHANGED << fps, time_seg, exitReason, last_ckey_state, captured,
                    capture_pressed, list, child, stdinOpen, enc, slots,
                    manifest, clips, keyDown, chan, quitSent, endCause,
                    lastFin, holdEdges >>
    /\ UNCHANGED cfgVars
    /\ UNCHANGED << segStart, freshSlots, spawnArgs >>

\* Mutant of AfterCapture: a failed capture ends the segment.
AfterCaptureBreaks(ok) == IF ok THEN "write" ELSE "drain"

\* main.rs:217: where the tick goes after capture_frame() returned.
AfterCapture(ok) == IF ok THEN "write" ELSE "keys"

\* main.rs:217.  manager.capture_frame() returns Ok or Err.
Capture ==
    /\ pc = "capture"
    /\ \E ok \in BOOLEAN :
         /\ captured' = ok
         /\ pc' = AfterCapture(ok)
    /\ UNCHANGED << fps, time_seg, exitReason, next_frame_time,
                    last_ckey_state, capture_pressed, list, child, stdinOpen,
                    enc, slots, manifest, clips, now, keyDown, chan, quitSent,
                    tickDeadline, endCause, lastFin, holdEdges >>
    /\ UNCHANGED cfgVars
    /\ UNCHANGED segVars

\* main.rs:218-224.  stdin.write_all(slice): the frame is as large as the
\* BufWriter, so it goes straight to the pipe; the write fails when the
\* encoder has exited.
Write ==
    /\ pc = "write"
    /\ IF child = "running"
       THEN /\ enc' = EncoderAccept(enc, slots, now).enc
            /\ slots' = EncoderAccept(enc, slots, now).slots
            /\ freshSlots' = freshSlots \cup {EncoderAccept(enc, slots, now).enc.cur}
            /\ pc' = "keys"
            /\ UNCHANGED endCause
       ELSE /\ pc' = "drain"
            /\ endCause' = "write_failure"
            /\ UNCHANGED << enc, slots, freshSlots >>
    /\ UNCHANGED << fps, time_seg, exitReason, next_frame_time,
                    last_ckey_state, captured, capture_pressed, list, child,
                    stdinOpen, manifest, clips, now, keyDown, chan, quitSent,
                    tickDeadline, lastFin, holdEdges >>
    /\ UNCHANGED cfgVars
    /\ UNCHANGED << segStart, ticks, spawnArgs >>

\* Mutant of LeaveTarget: the shutdown request leaves only the inner loop
\* (`break` for `break 'main_loop`).
LeaveTargetInnerBreak(reason) == IF reason = "shutdown" THEN "drain" ELSE "done"

\* main.rs:229, 233: `return Ok(())` and `break 'main_loop` both leave the
\* session loop, past the drain and the finalizer.
LeaveTarget(reason) == "done"

\* main.rs:227-230.  get_keys(); LControl+F1 returns Ok(()) from
\* recording_loop, dropping stdin and child.
PollKeys ==
    /\ pc = "keys"
    /\ \E abort \in BOOLEAN :
         IF abort
         THEN /\ pc' = LeaveTarget("abort")
              /\ exitReason' = "abort"
              /\ stdinOpen' = FALSE
              /\ UNCHANGED capture_pressed
         ELSE /\ pc' = "recv"
              /\ capture_pressed' = keyDown
              /\ UNCHANGED << exitReason, stdinOpen >>
    /\ UNCHANGED << fps, time_seg, next_frame_time, last_ckey_state, captured,
                    list, child, enc, slots, manifest, clips, now, keyDown,
                    chan, quitSent, tickDeadline, endCause, lastFin,
                    holdEdges >>
    /\ UNCHANGED cfgVars
    /\ UNCHANGED segVars

\* main.rs:232-234.  rx.try_recv().is_ok() breaks 'main_loop.
Recv ==
    /\ pc = "recv"
    /\ IF chan > 0
       THEN /\ chan' = chan - 1
            /\ pc' = LeaveTarget("shutdown")
            /\ exitReason' = "shutdown"
            /\ stdinOpen' = FALSE
       ELSE /\ pc' = "edge"
            /\ UNCHANGED << chan, exitReason, stdinOpen >>
    /\ UNCHANGED << fps, time_seg, next_frame_time, last_ckey_state, captured,
                    capture_pressed, list, child, enc, slots, manifest, clips,
                    now, keyDown, quitSent, tickDeadline, endCause, lastFin,
                    holdEdges >>
    /\ UNCHANGED cfgVars
    /\ UNCHANGED segVars

\* main.rs:237: the save request is raised on a rising edge of the hotkey.
RisingEdge(pressed, last) == pressed /\ ~last

\* main.rs:236-240.
EdgeCheck ==
    /\ pc = "edge"
    /\ IF RisingEdge(capture_pressed, last_ckey_state)
       THEN /\ pc' = "drain"
            /\ endCause' = "hotkey"
            /\ holdEdges' = Bump(holdEdges)
            /\ UNCHANGED last_ckey_state
       ELSE /\ pc' = "pace"
            /\ last_ckey_state' = capture_pressed
            /\ UNCHANGED << endCause, holdEdges >>
    \* The tick's locals go out of scope.
    /\ captured' = FALSE
    /\ capture_pressed' = FALSE
    /\ UNCHANGED << fps, time_seg, exitReason, next_frame_time, list, child,
                    stdinOpen, enc, slots, manifest, clips, now, keyDown,
                    chan, quitSent, tickDeadline, lastFin >>
    /\ UNCHANGED cfgVars
    /\ UNCHANGED segVars

\* ------------------------------------------------- recording_loop: DRAINING
\* Mutant of AfterDropStdin: the finalizer is called without child.wait().
AfterDropStdinNoWait == "fin_meta"

\* main.rs:243-244: drop(stdin) is followed by child.wait().
AfterDropStdin == "wait"

\* main.rs:243.  drop(stdin)
DropStdin ==
    /\ pc = "drain"
    /\ stdinOpen' = FALSE
    /\ pc' = AfterDropStdin
    /\ UNCHANGED << fps, time_seg, exitReason, next_frame_time,
                    last_ckey_state, captured, capture_pressed, list, child,
                    enc, slots, manifest, clips, now, keyDown, chan, quitSent,
                    tickDeadline, endCause, lastFin, holdEdges >>
    /\ UNCHANGED cfgVars
    /\ UNCHANGED segVars

\* main.rs:244.  child.wait() returns once the encoder has exited; an encoder
\* still running finishes its open file at end of input and exits.
Wait ==
    /\ pc = "wait"
    /\ slots' = IF child = "running" THEN EncoderClose(enc, slots, now)
                ELSE slots
    /\ child' = "reaped"
    /\ pc' = "fin_meta"
    /\ UNCHANGED << fps, time_seg, exitReason, next_frame_time,
                    last_ckey_state, captured, capture_pressed, list,
                    stdinOpen, enc, manifest, clips, now, keyDown, chan,
                    quitSent, tickDeadline, endCause, lastFin, holdEdges >>
    /\ UNCHANGED cfgVars
    /\ UNCHANGED segVars

\* --------------------------------------------- save_final_clip: FINALIZING
\* Mutant of SlotList: the comparison of the modification times reversed.
SlotListNewestFirst(s) ==
    IF s[0].exists /\ s[1].exists
    THEN IF s[0].mtime > s[1].mtime THEN << 0, 1 >> ELSE << 1, 0 >>
    ELSE IF s[0].exists THEN << 0 >>
    ELSE IF s[1].exists THEN << 1 >>
    ELSE << >>

\* main.rs:257-270.  The slot files to merge, oldest first.
SlotList(s) ==
    IF s[0].exists /\ s[1].exists
    THEN IF s[0].mtime < s[1].mtime THEN << 0, 1 >> ELSE << 1, 0 >>
    ELSE IF s[0].exists THEN << 0 >>
    ELSE IF s[1].exists THEN << 1 >>
    ELSE << >>

\* main.rs:250-270.  Read the metadata of both slots; with neither present
\* save_final_clip returns Ok(()) at once.  (modified() is supported on the
\* program's platform, so `m0.modified()?` does not return.)
FinMeta ==
    /\ pc = "fin_meta"
    /\ IF SlotList(slots) = << >>
       THEN /\ pc' = "spawn"
            /\ lastFin' = "ok"
            /\ endCause' = "none"
            /\ UNCHANGED list
       ELSE /\ pc' = "fin_manifest"
            /\ list' = SlotList(slots)
            /\ UNCHANGED << lastFin, endCause >>
    /\ UNCHANGED << fps, time_seg, exitReason, next_frame_time,
                    last_ckey_state, captured, capture_pressed, child,
                    stdinOpen, enc, slots, manifest, clips, now, keyDown,
                    chan, quitSent, tickDeadline, holdEdges >>
    /\ UNCHANGED cfgVars
    /\ UNCHANGED segVars

\* main.rs:272-278.  File::create(list_path)? and one writeln!(..)? per
\* entry; either error leaves save_final_clip, and then recording_loop
\* (main.rs:245), through `?`.
FinManifest ==
    /\ pc = "fin_manifest"
    /\ \E r \in {"ok", "create_failed", "write_failed"} :
         /\ manifest' = CASE r = "ok" -> [exists |-> TRUE, content |-> list]
                          [] r = "create_failed" -> manifest
                          [] r = "write_failed" ->
                                 [exists |-> TRUE, content |-> << >>]
         /\ IF r = "ok"
            THEN /\ pc' = "fin_concat"
                 /\ UNCHANGED << exitReason, lastFin, list >>
            ELSE /\ pc' = "done"
                 /\ exitReason' = "finalize_error"
                 /\ lastFin' = r
                 /\ list' = << >>
    /\ UNCHANGED << fps, time_seg, next_frame_time, last_ckey_state, captured,
                    capture_pressed, child, stdinOpen, enc, slots, clips, now,
                    keyDown, chan, quitSent, tickDeadline, endCause,
                    holdEdges >>
    /\ UNCHANGED cfgVars
    /\ UNCHANGED segVars

\* main.rs:288.  "-y": the concat process writes its output file whether or
\* not a file of that name exists.
ConcatOutput(c) == IF c = "absent" THEN "written" ELSE "rewritten"

\* main.rs:282-300.  ffmpeg -y -f concat ... clip_<timestamp>.mp4 and
\* .status()?: a spawn error leaves through `?`; an exit status, zero or
\* not, is Ok.  A run that exits non-zero may or may not have written the
\* output file.
FinConcat ==
    /\ pc = "fin_concat"
    /\ \E r \in {"spawn_failed", "exit_nonzero", "exit_zero"}, wrote \in BOOLEAN :
         /\ r = "exit_zero" => wrote
         /\ r = "spawn_failed" => ~wrote
         /\ clips' = IF wrote
                     THEN [clips EXCEPT ![output_name(now)] = ConcatOutput(@)]
                     ELSE clips
         /\ IF r = "spawn_failed"
            THEN /\ pc' = "done"
                 /\ exitReason' = "finalize_error"
                 /\ lastFin' = "spawn_failed"
                 /\ list' = << >>
            ELSE /\ pc' = "fin_remove"
                 /\ UNCHANGED << exitReason, lastFin, list >>
    /\ UNCHANGED << fps, time_seg, next_frame_time, last_ckey_state, captured,
                    capture_pressed, child, stdinOpen, enc, slots, manifest,
                    now, keyDown, chan, quitSent, tickDeadline, endCause,
                    holdEdges >>
    /\ UNCHANGED cfgVars
    /\ UNCHANGED segVars

\* Mutant of SlotsAfterCleanup: the cleanup removes the slot files too.
SlotsAfterCleanupRemoved(s) == [i \in DOMAIN s |-> NoSlot]

\* main.rs:302: the cleanup removes list_path only; the slot files stay.
SlotsAfterCleanup(s) == s

\* main.rs:302-304.  remove_file(list_path), then Ok(()); recording_loop
\* goes round 'main_loop (main.rs:246).
FinRemove ==
    /\ pc = "fin_remove"
    /\ manifest' = NoManifest
    /\ slots' = SlotsAfterCleanup(slots)
    /\ list' = << >>
    /\ lastFin' = "ok"
    /\ endCause' = "none"
    /\ pc' = "spawn"
    /\ UNCHANGED << fps, time_seg, exitReason, next_frame_time,
                    last_ckey_state, captured, capture_pressed, child,
                    stdinOpen, enc, clips, now, keyDown, chan,
                    quitSent, tickDeadline, holdEdges >>
    /\ UNCHANGED cfgVars
    /\ UNCHANGED segVars

\* ------------------------------------------------------------ environment
\* The clock moves on by one frame interval (a slow tick body, a slow
\* external process, scheduling).  The step is taken where the recording
\* thread or the encoder reads the clock next.
TimePasses ==
    /\ pc \in {"spawn", "pace", "write", "wait", "fin_concat"}
    /\ now + frame_duration <= MaxTime
    /\ now' = now + frame_duration
    /\ UNCHANGED << fps, time_seg, pc, exitReason, next_frame_time,
                    last_ckey_state, captured, capture_pressed, list, child,
                    stdinOpen, enc, slots, manifest, clips, keyDown, chan,
                    quitSent, tickDeadline, endCause, lastFin, holdEdges >>
    /\ UNCHANGED cfgVars
    /\ UNCHANGED segVars

\* The user presses the save hotkey: a new hold begins.  The keyboard is
\* only observed by get_keys(), so its changes are taken right before it.
KeyPress ==
    /\ pc = "keys"
    /\ ~keyDown
    /\ keyDown' = TRUE
    /\ holdEdges' = 0
    /\ UNCHANGED << fps, time_seg, pc, exitReason, next_frame_time,
                    last_ckey_state, captured, capture_pressed, list, child,
                    stdinOpen, enc, slots, manifest, clips, now, chan,
                    quitSent, tickDeadline, endCause, lastFin >>
    /\ UNCHANGED cfgVars
    /\ UNCHANGED segVars

\* The user releases the save hotkey.
KeyRelease ==
    /\ pc = "keys"
    /\ keyDown
    /\ keyDown' = FALSE
    /\ UNCHANGED << fps, time_seg, pc, exitReason, next_frame_time,
                    last_ckey_state, captured, capture_pressed, list, child,
                    stdinOpen, enc, slots, manifest, clips, now, chan,
                    quitSent, tickDeadline, endCause, lastFin, holdEdges >>
    /\ UNCHANGED cfgVars
    /\ UNCHANGED segVars

\* main.rs:126-130.  The UI thread handles the Quit menu event:
\* tx.send(true) and event_loop.exit().
Quit ==
    /\ pc # "done"
    /\ ~quitSent
    /\ quitSent' = TRUE
    /\ chan' = chan + 1
    /\ UNCHANGED << fps, time_seg, pc, exitReason, next_frame_time,
                    last_ckey_state, captured, capture_pressed, list, child,
                    stdinOpen, enc, slots, manifest, clips, now, keyDown,
                    tickDeadline, endCause, lastFin, holdEdges >>
    /\ UNCHANGED cfgVars
    /\ UNCHANGED segVars

\* The encoder process exits on its own while its input is still open
\* (encoder unavailable, crash): later writes to the pipe fail.  The step is
\* taken right before the write or the drain that observes it.
EncoderDie ==
    /\ pc \in {"write", "drain"}
    /\ child = "running"
    /\ stdinOpen
    /\ child' = "exited"
    /\ UNCHANGED << fps, time_seg, pc, exitReason, next_frame_time,
                    last_ckey_state, captured, capture_pressed, list,
                    stdinOpen, enc, slots, manifest, clips, now, keyDown,
                    chan, quitSent, tickDeadline, endCause, lastFin,
                    holdEdges >>
    /\ UNCHANGED cfgVars
    /\ UNCHANGED segVars

\* main.rs:229, 233.  After the abort return or the shutdown break the pipe
\* is dropped without a wait: the encoder sees end of input, finishes its
\* open file and exits.
EncoderEOF ==
    /\ pc = "done"
    /\ child = "running"
    /\ ~stdinOpen
    /\ slots' = EncoderClose(enc, slots, now)
    /\ child' = "exited"
    /\ UNCHANGED << fps, time_seg, pc, exitReason, next_frame_time,
                    last_ckey_state, captured, capture_pressed, list,
                    stdinOpen, enc, manifest, clips, now, keyDown, chan,
                    quitSent, tickDeadline, endCause, lastFin, holdEdges >>
    /\ UNCHANGED cfgVars
    /\ UNCHANGED segVars

\* ------------------------------------------------------- specifications
RecordingStep ==
    \/ Spawn
    \/ Pace
    \/ Capture
    \/ Write
    \/ PollKeys
    \/ Recv
    \/ EdgeCheck
    \/ DropStdin
    \/ Wait
    \/ FinMeta
    \/ FinManifest
    \/ FinConcat
    \/ FinRemove

Environment ==
    \/ TimePasses
    \/ KeyPress
    \/ KeyRelease
    \/ Quit
    \/ EncoderDie
    \/ EncoderEOF

Next == RecordingStep \/ Environment

Spec == Init /\ [][Next]_vars

\* The recording thread is scheduled as long as it can take a step; the
\* external processes it waits for terminate (Wait and FinConcat are steps
\* of RecordingStep that are always enabled at their position).
FairSpec == Init /\ [][Next]_vars /\ WF_vars(RecordingStep)

\* ------------------------------------------------------- main: startup
\* Everything main and load_settings leave alone.
sessionVars == << next_frame_time, last_ckey_state, captured, capture_pressed,
                  list, child, stdinOpen, enc, slots, manifest, clips, now,
                  keyDown, chan, quitSent, tickDeadline, endCause, lastFin,
                  holdEdges >>

\* State at the entry of main: the statics hold their initializers, ack.cfg
\* holds anything, the recording thread does not exist yet.
CfgInit ==
    /\ cfgFile \in CfgFiles
    /\ config = StaticDefaults
    /\ mainPc = "load"
    /\ cfgReset = FALSE
    /\ pc = "start"
    /\ exitReason = "none"
    /\ fps = 0
    /\ time_seg = 0
    /\ kbps = 0
    /\ key_code = "none"
    /\ enc_idx = 0
    /\ next_frame_time = 0
    /\ last_ckey_state = FALSE
    /\ captured = FALSE
    /\ capture_pressed = FALSE
    /\ list = << >>
    /\ child = "none"
    /\ stdinOpen = FALSE
    /\ enc = NoEnc
    /\ slots = [i \in Slots |-> NoSlot]
    /\ manifest = NoManifest
    /\ clips = [n \in ClipNames |-> "absent"]
    /\ now = 0
    /\ keyDown = FALSE
    /\ chan = 0
    /\ quitSent = FALSE
    /\ tickDeadline = 0
    /\ endCause = "none"
    /\ lastFin = "none"
    /\ holdEdges = 0
    /\ segStart = 0
    /\ ticks = 0
    /\ freshSlots = {}
    /\ spawnArgs = NoArgs

\* main.rs:79  the first load_settings(); an unreadable file is replaced by
\* the default one on the way (main.rs:37-40).
MainLoad ==
    /\ mainPc = "load"
    /\ config' = load_settings(cfgFile, config).st
    /\ \E wrote \in BOOLEAN :
         cfgFile' = IF cfgFile.kind = "absent"
                    THEN WriteDefault(cfgFile, wrote) ELSE cfgFile
    /\ mainPc' = IF load_settings(cfgFile, config).ok THEN "init" ELSE "reset"
    /\ UNCHANGED << fps, time_seg, pc, exitReason, cfgReset, kbps, key_code,
                    enc_idx >>
    /\ UNCHANGED sessionVars
    /\ UNCHANGED segVars

\* Mutant of AfterReset: main goes on without loading the file it rewrote.
AfterResetNoReload == "init"

\* main.rs:83-84: after the rewrite main calls load_settings() again.
AfterReset == "reload"

\* main.rs:80-83  the dialog and fs::write("ack.cfg", DEFAULT_CFG).
MainReset ==
    /\ mainPc = "reset"
    /\ \E wrote \in BOOLEAN : cfgFile' = WriteDefault(cfgFile, wrote)
    /\ cfgReset' = TRUE
    /\ mainPc' = AfterReset
    /\ UNCHANGED << fps, time_seg, pc, exitReason, config, kbps, key_code,
                    enc_idx >>
    /\ UNCHANGED sessionVars
    /\ UNCHANGED segVars

\* main.rs:84  load_settings()?: an error makes main return it.
MainReload ==
    /\ mainPc = "reload"
    /\ config' = load_settings(cfgFile, config).st
    /\ \E wrote \in BOOLEAN :
         cfgFile' = IF cfgFile.kind = "absent"
                    THEN WriteDefault(cfgFile, wrote) ELSE cfgFile
    /\ mainPc' = IF load_settings(cfgFile, config).ok THEN "init" ELSE "failed"
    /\ UNCHANGED << fps, time_seg, pc, exitReason, cfgReset, kbps, key_code,
                    enc_idx >>
    /\ UNCHANGED sessionVars
    /\ UNCHANGED segVars

\* main.rs:87-120 and 145-159: main starts the recording thread, which
\* copies the statics and computes frame_duration; 1_000_000_000 / fps
\* panics for fps = 0.
StartRecording ==
    /\ mainPc = "init"
    /\ mainPc' = "started"
    /\ fps' = config.fps
    /\ kbps' = config.kbps
    /\ key_code' = config.key
    /\ time_seg' = config.time
    /\ enc_idx' = config.encoder
    /\ IF config.fps = 0
       THEN pc' = "done" /\ exitReason' = "panic"
       ELSE pc' = "spawn" /\ UNCHANGED exitReason
    /\ UNCHANGED << cfgFile, config, cfgReset >>
    /\ UNCHANGED sessionVars
    /\ UNCHANGED segVars

CfgNext ==
    \/ MainLoad
    \/ MainReset
    \/ MainReload
    \/ StartRecording

\* Startup, from the entry of main to the recording thread having read its
\* parameters.
CfgSpec == CfgInit /\ [][CfgNext]_vars

\* What DEFAULT_CFG stands for: time 10, fps 60, 10,000,000 bits/s, key F10,
\* encoder 0.
DocumentedDefaults ==
    [key |-> "F10", fps |-> 60, kbps |-> 10000000, time |-> 10, encoder |-> 0]

\* ------------------------------------------------------------------ claims
InFinalizer == pc \in {"fin_meta", "fin_manifest", "fin_concat", "fin_remove"}

\* The pacer has reached the horizon of the model.
Horizon == pc = "pace" /\ next_frame_time > MaxTime

\* C1 (as claimed): a save hotkey held continuously, across ticks and across
\* the finalize it triggered, raises exactly one save request: never more
\* than one during one hold.
HotkeyEdgeOnce == holdEdges <= 1

\* C2 (as claimed): when the manifest cannot be written or the concat
\* process cannot be spawned, the session does not terminate and the program
\* does not exit.
FinalizeFailureContinues ==
    lastFin \in {"create_failed", "write_failed", "spawn_failed"}
        => (pc # "done" /\ exitReason # "finalize_error")

\* C3 (as claimed): whenever a call of save_final_clip has returned, with
\* success or with an error, concat_list.txt does not exist.
ManifestGoneAfterFinalize ==
    (lastFin # "none" /\ ~InFinalizer) => ~manifest.exists

\* C4 (as claimed): once the UI thread has sent the shutdown signal, with the
\* recording thread in STREAMING, DRAINING or FINALIZING (a first segment
\* has been started), the recording thread never spawns a Segment Encoder
\* Process.
NoSpawnAfterShutdown ==
    [][~(quitSent /\ child # "none" /\ pc = "spawn" /\ pc' = "pace")]_vars

\* C5 (as claimed): after the shutdown signal is sent the recording thread
\* eventually leaves its session loop (within the horizon of the model).
ShutdownHonored == quitSent ~> (pc = "done" \/ Horizon)

\* C6 (as claimed): recording_loop stops only because the shutdown signal
\* was received or because spawning a Segment Encoder Process failed.
StopsOnlyOnShutdownOrSpawnFailure ==
    pc = "done" => exitReason \in {"shutdown", "spawn_failed"}

\* The manifest lists the slot files in the order of their modification
\* times when both exist with distinct times, and the one present otherwise.
ManifestChronological ==
    /\ manifest.exists
    /\ (slots[0].exists /\ slots[1].exists /\ slots[0].mtime < slots[1].mtime)
           => manifest.content = << 0, 1 >>
    /\ (slots[0].exists /\ slots[1].exists /\ slots[1].mtime < slots[0].mtime)
           => manifest.content = << 1, 0 >>
    /\ (slots[0].exists /\ ~slots[1].exists) => manifest.content = << 0 >>
    /\ (slots[1].exists /\ ~slots[0].exists) => manifest.content = << 1 >>

\* C7: when save_final_clip has written the manifest, it lists exactly the
\* two slot names, earlier-modified first, when both slot files exist with
\* distinct modification times, and exactly the one present when one exists;
\* when neither exists save_final_clip returns success without creating a
\* manifest, a concat process or a clip.
ManifestOrder ==
    [][ /\ (pc' = "fin_concat" => ManifestChronological')
        /\ (pc = "fin_meta" /\ pc' # "fin_meta"
              /\ ~slots[0].exists /\ ~slots[1].exists)
             => (pc' = "spawn" /\ lastFin' = "ok"
                   /\ manifest' = manifest /\ clips' = clips)
        /\ (pc = "fin_meta" /\ pc' # "fin_meta"
              /\ (slots[0].exists \/ slots[1].exists))
             => pc' = "fin_manifest" ]_vars

\* C7 witness: the encoder has wrapped, so slot 1 is the older file, and the
\* manifest just written lists it first.
ManifestOrderWitness ==
    /\ pc = "fin_concat"
    /\ slots[0].exists /\ slots[1].exists
    /\ slots[1].mtime < slots[0].mtime
    /\ manifest.content = << 1, 0 >>

\* C8 (as claimed): a clip file, once produced, is never written again by a
\* later finalize.
ClipsWrittenOnce == \A n \in ClipNames : clips[n] # "rewritten"

\* C9 (as claimed): a segment ended by a write failure is drained and
\* finalized and then followed by a new spawn: the session never ends
\* between the write failure and that spawn.
WriteFailureSegmentLocal == endCause = "write_failure" => pc # "done"

\* C10: on a tick whose capture failed nothing is written to the encoder,
\* the deadline stays advanced by one frame interval past the deadline the
\* tick waited for, the session goes on to the key poll, and the abort, the
\* shutdown and the save-hotkey checks of that tick are made and decide
\* where the tick goes.
CaptureFailureFrameLocal ==
    [][ /\ (pc = "capture" /\ pc' # "capture" /\ ~captured')
             => /\ pc' = "keys"
                /\ UNCHANGED << enc, slots, child, stdinOpen >>
                /\ next_frame_time' = tickDeadline + frame_duration
        /\ (pc = "keys" /\ pc' # "keys" /\ ~captured)
             => /\ \/ pc' = "done" /\ exitReason' = "abort"
                   \/ pc' = "recv" /\ capture_pressed' = keyDown
                /\ UNCHANGED << enc, slots, next_frame_time >>
        /\ (pc = "recv" /\ pc' # "recv" /\ ~captured)
             => /\ IF chan > 0
                   THEN pc' = "done" /\ exitReason' = "shutdown"
                   ELSE pc' = "edge"
                /\ UNCHANGED << enc, slots, next_frame_time >>
        /\ (pc = "edge" /\ pc' # "edge" /\ ~captured)
             => /\ IF capture_pressed /\ ~last_ckey_state
                   THEN pc' = "drain" /\ endCause' = "hotkey"
                   ELSE pc' = "pace" /\ last_ckey_state' = capture_pressed
                /\ UNCHANGED << enc, slots >>
                /\ next_frame_time' = tickDeadline + frame_duration ]_vars

\* C10 witness: the capture of this tick failed, nothing has been written in
\* this segment, and the tick has reached the save-hotkey check with the key
\* down.
CaptureFailureWitness ==
    /\ pc = "edge"
    /\ ~captured
    /\ capture_pressed
    /\ enc.cur = -1
    /\ next_frame_time = tickDeadline + frame_duration

\* C11: when the shutdown request or the abort combination is observed, the
\* recording thread leaves the session loop at once and for good: the
\* finalizer is not invoked, no manifest and no clip is written, and no
\* Segment Encoder Process is spawned, on that step and on every later one.
ShutdownAbortSkipFinalize ==
    [][ exitReason' \in {"shutdown", "abort"}
          => /\ pc' = "done"
             /\ manifest' = manifest
             /\ clips' = clips
             /\ lastFin' = lastFin
             /\ (child' = "running" => child = "running") ]_vars

\* C11 witness: the session was left on a shutdown request while the
\* segment in progress had footage on disk; the finalizer never ran.
ShutdownAbortWitness ==
    /\ pc = "done"
    /\ exitReason = "shutdown"
    /\ slots[0].exists
    /\ lastFin = "none"
    /\ ~manifest.exists
    /\ \A n \in ClipNames : clips[n] = "absent"

\* C12: a save by hotkey while only slot 0 exists merges a manifest that
\* lists just slot 0, and no step taken while save_final_clip runs deletes,
\* renames or modifies a slot file.
SaveLeavesSlots ==
    [][ /\ (InFinalizer => slots' = slots)
        /\ (pc' = "fin_concat" /\ endCause' = "hotkey"
              /\ slots'[0].exists /\ ~slots'[1].exists)
             => manifest'.content = << 0 >> ]_vars

\* C12 witness: one save request, only slot 0 on disk, the concat process
\* has written the clip from the manifest << 0 >>, and slot 0 is as the
\* encoder left it.
SaveLeavesSlotsWitness ==
    /\ pc = "spawn"
    /\ lastFin = "ok"
    /\ holdEdges = 1
    /\ slots[0].exists /\ ~slots[1].exists
    /\ clips[output_name(now)] = "written"

\* C13 (as claimed): for every content of ack.cfg, the parameters the
\* recording thread reads at its start have frame rate > 0, segment duration
\* > 0 and an encoder index in 0..3.
SessionParametersValid ==
    mainPc = "started" => (fps > 0 /\ time_seg > 0 /\ enc_idx \in 0 .. 3)

\* C14: when the first load_settings() fails (malformed file, missing or
\* ill-typed field, unknown key name) and main goes on to start recording,
\* ack.cfg holds exactly the default JSON and the statics, and the
\* parameters the recording thread reads, are all the documented defaults,
\* never a mix with values of the rejected file.
ConfigResetToDefaults ==
    (cfgReset /\ mainPc \in {"init", "started"})
        => /\ cfgFile = DefaultFile
           /\ config = DocumentedDefaults
           /\ mainPc = "started"
                => /\ fps = 60 /\ time_seg = 10 /\ kbps = 10000000
                   /\ key_code = "F10" /\ enc_idx = 0

\* C14 witness: the recording thread has started after a reset.
ConfigResetWitness ==
    /\ cfgReset
    /\ mainPc = "started"
    /\ pc = "spawn"
    /\ cfgFile = DefaultFile
    /\ fps = 60

\* The recording thread is inside a tick body.
InTick == pc \in {"capture", "write", "keys", "recv", "edge"}

\* Deadlines of this segment that have passed: R * D + 1 for the duration D
\* since the segment start (the first deadline is the segment start).
Due == (now - segStart) \div frame_duration + 1

\* How many frame intervals the current tick ran past its deadline.
Late == (now - tickDeadline) \div frame_duration

\* C15: within a recording segment the pacer never issues a tick ahead of
\* the rate, and the ticks missing from R * D are exactly the frame
\* intervals the current tick is late by: a slow tick body costs no tick
\* for good, and once the pacer is on time again the count is R * D (+ the
\* tick at the segment start) exactly.
PacingAccuracy ==
    InTick => /\ ticks >= 1
              /\ ticks <= Due
              /\ Due - ticks = Late
              /\ now = tickDeadline => ticks = Due

\* C15 witness: a tick body was slow, the second tick is issued one frame
\* interval after its deadline.
PacingAccuracyWitness ==
    pc = "capture" /\ ticks = 2 /\ Late = 1 /\ Due = 3

\* C16: at most two segment files exist, buffer0.mp4 and buffer1.mp4, and
\* the encoder never writes under another index, across segments, finalizes
\* and respawns.
RotationBound ==
    /\ Cardinality({i \in DOMAIN slots : slots[i].exists}) <= 2
    /\ \A i \in DOMAIN slots : slots[i].exists => i \in {0, 1}
    /\ enc.cur \in {-1, 0, 1}
    /\ freshSlots \subseteq {0, 1}

\* C16 witness: in a segment spawned after a finalize, the encoder has
\* filled both files and wrapped around to overwrite buffer0.mp4.
RotationBoundWitness ==
    /\ lastFin = "ok"
    /\ child = "running"
    /\ enc.cur = 0
    /\ freshSlots = {0, 1}
    /\ slots[0].exists /\ slots[1].exists
    /\ slots[0].mtime > slots[1].mtime

\* C17: whenever the finalizer runs, the encoder's input stream has been
\* closed and the encoder has been waited for, and no encoder is running
\* when the next one is spawned.
DrainBeforeFinalize ==
    /\ InFinalizer => (~stdinOpen /\ child = "reaped")
    /\ pc = "spawn" => child \in {"none", "reaped"}

\* C17 witness: the finalizer is reading the slot files of a segment ended
\* by the hotkey.
DrainBeforeFinalizeWitness ==
    /\ pc = "fin_meta"
    /\ endCause = "hotkey"
    /\ child = "reaped"
    /\ slots[0].exists

\* C18: a rising edge seen on a tick leads to one drain, one wait and one
\* finalizer call (the finalizer is entered only from the wait, the wait
\* only from the drain); a finalizer that returns Ok is followed by a
\* spawn, and every spawn passes the arguments of the first one and resets
\* next_frame_time to the clock and last_ckey_state to false.
FinalizeThenNewSegment ==
    [][ /\ (pc = "edge" /\ pc' # pc
               /\ RisingEdge(capture_pressed, last_ckey_state))
              => pc' = "drain"
        /\ (pc = "drain" /\ pc' # pc) => pc' = "wait"
        /\ (pc = "wait" /\ pc' # pc) => pc' = "fin_meta"
        /\ (pc' = "fin_meta" /\ pc # pc') => pc = "wait"
        /\ (InFinalizer /\ ~InFinalizer')
              => \/ pc' = "spawn" /\ lastFin' = "ok"
                 \/ pc' = "done" /\ lastFin' # "ok"
        /\ (pc' = "spawn" /\ pc # pc') => InFinalizer
        /\ (pc = "spawn" /\ pc' = "pace")
              => /\ child' = "running"
                 /\ spawnArgs' = SpawnArgs
                 /\ next_frame_time' = now'
                 /\ last_ckey_state' = FALSE ]_vars

\* C18 witness: the segment spawned after a save, the hotkey still down.
FinalizeThenNewSegmentWitness ==
    /\ pc = "pace"
    /\ ticks = 0
    /\ lastFin = "ok"
    /\ holdEdges = 1
    /\ keyDown
    /\ child = "running"
    /\ next_frame_time = now
    /\ now > 0

\* C19: counting the ticks of a segment from 0, the deadline of tick k is
\* segment start + k * frame interval, whatever the clock said when the
\* earlier ticks ran; capture and write start at or after the deadline of
\* their tick; a pacer already past the deadline lets the tick go at once.
PacerDeadlines ==
    [][ /\ (pc = "pace" /\ pc' = "capture")
              => /\ tickDeadline' = segStart + ticks * frame_duration
                 /\ next_frame_time' = segStart + ticks' * frame_duration
                 /\ (now >= next_frame_time => now' = now)
                 /\ (now < next_frame_time => now' = next_frame_time)
        /\ pc' \in {"capture", "write"} => now' >= tickDeadline' ]_vars

\* C19 witness: the third tick writes a full frame interval after its
\* deadline, and the deadline is still segment start + 2 intervals.
PacerDeadlinesWitness ==
    /\ pc = "write"
    /\ ticks = 3
    /\ tickDeadline = segStart + 2 * frame_duration
    /\ now = tickDeadline + frame_duration

\* C20 (as claimed): every slot file in the manifest of a finalize was
\* written by the encoder of the segment that just ended.
NoStaleFootage ==
    pc = "fin_concat"
        => \A i \in 1 .. Len(manifest.content) : manifest.content[i] \in freshSlots
====
